---- MODULE Spec2Model ----
(***************************************************************************)
(* The judo / grappling mention tracker: the matcher that finds catalog    *)
(* names in text, the mentions table with its two duplicate-removal        *)
(* passes, and the scraping pipeline that fills it.                        *)
(*                                                                         *)
(* A Python str is a sequence of one-character strings; the mentions table *)
(* is a set of rows, each with the rowid SQLite gave it.                   *)
(***************************************************************************)
EXTENDS Integers, Sequences, FiniteSets, TLC

(***************************************************************************)
(* Characters and strings                                                  *)
(***************************************************************************)

UpperCase == <<"A","B","C","D","E","F","G","H","I","J","K","L","M",
               "N","O","P","Q","R","S","T","U","V","W","X","Y","Z">>

LowerCase == <<"a","b","c","d","e","f","g","h","i","j","k","l","m",
               "n","o","p","q","r","s","t","u","v","w","x","y","z">>

DigitChars == {"0","1","2","3","4","5","6","7","8","9"}

\* Python's None, where a str is expected: no str has a multi-character element.
None == <<"None">>

\* \w of the re module, on the characters the model uses.
IsWordChar(c) ==
    \/ \E i \in 1..26 : c = UpperCase[i] \/ c = LowerCase[i]
    \/ c \in DigitChars
    \/ c = "_"

\* str.lower() on one character.
LowerChar(c) ==
    IF \E i \in 1..26 : c = UpperCase[i]
    THEN LowerCase[CHOOSE i \in 1..26 : c = UpperCase[i]]
    ELSE c

\* str.lower()
lower(s) == [i \in 1..Len(s) |-> LowerChar(s[i])]

\* `x or ""`
OrEmpty(x) == IF x = None THEN <<>> ELSE x

(***************************************************************************)
(* The matcher                                                             *)
(***************************************************************************)

\* \b at offset i of s (between s[i] and s[i+1]): exactly one side is a word
\* character; beyond either end of s there is no word character.
WordBoundaryAt(s, i) ==
    (i >= 1 /\ IsWordChar(s[i])) # (i < Len(s) /\ IsWordChar(s[i + 1]))

\* re.escape(throw) under (?i), tried at offset i of s: every character of
\* throw stands for itself, letters compared without case.
LiteralAt(throw, s, i) ==
    /\ i + Len(throw) <= Len(s)
    /\ \A k \in 1..Len(throw) : LowerChar(throw[k]) = LowerChar(s[i + k])

\* re.search(rf'(?i)\b{re.escape(throw)}\b', s)
re_search(throw, s) ==
    \E i \in 0..Len(s) :
        /\ WordBoundaryAt(s, i)
        /\ LiteralAt(throw, s, i)
        /\ WordBoundaryAt(s, i + Len(throw))

\* Faulty variant: found holds the names as they stand in the lowered text.
FoundLowered(text_lower, judo_throws) ==
    LET hits == SelectSeq(judo_throws, LAMBDA throw : re_search(throw, text_lower))
    IN [i \in 1..Len(hits) |-> lower(hits[i])]

\* The names of judo_throws, in catalog order, that the loop of
\* find_throws_in_text appends to found.
FoundIn(text_lower, judo_throws) ==
    SelectSeq(judo_throws, LAMBDA throw : re_search(throw, text_lower))

find_throws_in_text(text, judo_throws) ==
    IF text = None \/ text = <<>>
    THEN <<>>
    ELSE FoundIn(lower(text), judo_throws)

\* find_throws_in_text of the older scraper: no guard, text is a str.
find_throws_in_text_checkdup(text, judo_throws) == FoundIn(lower(text), judo_throws)

\* instr_name.lower() in text_lower
IsSubstring(name, s) ==
    \E i \in 0..Len(s) :
        /\ i + Len(name) <= Len(s)
        /\ \A k \in 1..Len(name) : name[k] = s[i + k]

\* The naive matcher of the instructionals bot (text is a str here).
find_instructionals_in_text(text, instructionals) ==
    SelectSeq(instructionals, LAMBDA instr_name : IsSubstring(lower(instr_name), lower(text)))

(***************************************************************************)
(* Timestamps                                                              *)
(*                                                                         *)
(* A clock reading is a number of seconds since the epoch.  A stored       *)
(* timestamp is the text "YYYY-MM-DD HH:MM:SS", kept as its six numbers;   *)
(* as every field has a fixed width, the order of the texts is the         *)
(* lexicographic order of the tuples.                                      *)
(***************************************************************************)

\* The civil date <<year, month, day>> of a day number (days since 1970-01-01).
CivilFromDays(days) ==
    LET z   == days + 719468
        era == z \div 146097
        doe == z - era * 146097
        yoe == (doe - doe \div 1460 + doe \div 36524 - doe \div 146096) \div 365
        doy == doe - (365 * yoe + yoe \div 4 - yoe \div 100)
        mp  == (5 * doy + 2) \div 153
        d   == doy - (153 * mp + 2) \div 5 + 1
        m   == IF mp < 10 THEN mp + 3 ELSE mp - 9
        y   == yoe + era * 400 + (IF m <= 2 THEN 1 ELSE 0)
    IN <<y, m, d>>

\* strftime("%Y-%m-%d %H:%M:%S") of a broken-down time, given as the seconds
\* since the epoch in the zone the time was broken down in.
strftime(secs) ==
    LET date == CivilFromDays(secs \div 86400)
        rem  == secs % 86400
    IN <<date[1], date[2], date[3], rem \div 3600, (rem % 3600) \div 60, rem % 60>>

\* datetime.fromtimestamp(t): the local time of the machine, tz seconds east of UTC.
fromtimestamp(t, zone) == t + zone

\* a < b as SQLite compares the two texts.
RECURSIVE TextLess(_, _)
TextLess(a, b) ==
    IF a = <<>> THEN b # <<>>
    ELSE IF b = <<>> THEN FALSE
    ELSE IF Head(a) # Head(b) THEN Head(a) < Head(b)
    ELSE TextLess(Tail(a), Tail(b))

(***************************************************************************)
(* The mentions table                                                      *)
(***************************************************************************)

\* Faulty variant: INSERT OR IGNORE under UNIQUE (timestamp, post_id, throw_name).
InsertOrIgnore(rows, seq, timestamp, mention_type, post_id, url, throw_name) ==
    IF \E r \in rows : /\ r.timestamp = timestamp
                       /\ r.post_id = post_id
                       /\ r.throw_name = throw_name
    THEN rows
    ELSE rows \cup {[id |-> seq + 1, timestamp |-> timestamp, type |-> mention_type,
                     post_id |-> post_id, url |-> url, throw_name |-> throw_name]}

\* Faulty variant: a table whose id is not AUTOINCREMENT gives the largest
\* rowid in the table plus one.
InsertAfterMaxRowid(rows, seq, timestamp, mention_type, post_id, url, throw_name) ==
    rows \cup {[id |-> IF rows = {} THEN 1
                       ELSE 1 + (CHOOSE i \in {r.id : r \in rows} :
                                    \A r \in rows : r.id <= i),
                timestamp |-> timestamp, type |-> mention_type,
                post_id |-> post_id, url |-> url, throw_name |-> throw_name]}

\* INSERT INTO mentions (timestamp, type, post_id, url, throw_name) VALUES
\* (...): the table with the new row, which takes the next AUTOINCREMENT id
\* (seq is sqlite_sequence, the largest id ever given).  The table has no
\* UNIQUE constraint, so nothing is rejected.
Insert(rows, seq, timestamp, mention_type, post_id, url, throw_name) ==
    rows \cup {[id |-> seq + 1, timestamp |-> timestamp, type |-> mention_type,
                post_id |-> post_id, url |-> url, throw_name |-> throw_name]}

Min(S) == CHOOSE x \in S : \A y \in S : x <= y

Max(S) == CHOOSE x \in S : \A y \in S : x >= y

\* Faulty variant: SELECT MAX(rowid) ... GROUP BY timestamp, post_id, throw_name
MaxRowidsExact(rows) ==
    { Max({q.id : q \in {q \in rows : /\ q.timestamp = r.timestamp
                                      /\ q.post_id = r.post_id
                                      /\ q.throw_name = r.throw_name}}) : r \in rows }

\* Faulty variant: GROUP BY post_id alone.
MinRowidsByPost(rows) ==
    { Min({q.id : q \in {q \in rows : q.post_id = r.post_id}}) : r \in rows }

\* SELECT MIN(rowid) FROM mentions GROUP BY timestamp, post_id, throw_name
MinRowidsExact(rows) ==
    { Min({q.id : q \in {q \in rows : /\ q.timestamp = r.timestamp
                                      /\ q.post_id = r.post_id
                                      /\ q.throw_name = r.throw_name}}) : r \in rows }

\* Faulty variant: the soft pass groups by the timestamp too.
MinRowidsSoftByTimestamp(rows) ==
    { Min({q.id : q \in {q \in rows : /\ q.timestamp = r.timestamp
                                      /\ q.post_id = r.post_id
                                      /\ q.throw_name = r.throw_name}}) : r \in rows }

\* Faulty variant: SELECT MAX(rowid) ... GROUP BY post_id, throw_name
MaxRowidsSoft(rows) ==
    { Max({q.id : q \in {q \in rows : /\ q.post_id = r.post_id
                                      /\ q.throw_name = r.throw_name}}) : r \in rows }

\* SELECT MIN(rowid) FROM mentions GROUP BY post_id, throw_name
MinRowidsSoft(rows) ==
    { Min({q.id : q \in {q \in rows : /\ q.post_id = r.post_id
                                      /\ q.throw_name = r.throw_name}}) : r \in rows }

\* Faulty variant: DELETE ... WHERE rowid IN (SELECT MIN(rowid) ... HAVING COUNT(*) > 1),
\* which deletes the earliest row of every group that has duplicates.
remove_first_of_duplicates(rows) ==
    {r \in rows :
        \/ r.id \notin MinRowidsExact(rows)
        \/ \A q \in rows : (/\ q.timestamp = r.timestamp
                            /\ q.post_id = r.post_id
                            /\ q.throw_name = r.throw_name) => q = r}

\* Faulty variant: the subquery has HAVING COUNT(*) = 1, so that every row of
\* a group of duplicates is deleted.
remove_every_copy(rows) ==
    {r \in rows : \A q \in rows : (/\ q.timestamp = r.timestamp
                                    /\ q.post_id = r.post_id
                                    /\ q.throw_name = r.throw_name) => q = r}

\* DELETE FROM mentions WHERE rowid NOT IN (...): the rows that stay.
remove_exact_duplicates(rows) == {r \in rows : r.id \in MinRowidsExact(rows)}

\* Faulty variant: the connection is closed without commit, and the DELETE
\* is rolled back.
remove_without_commit(rows) == rows

remove_soft_duplicates(rows) == {r \in rows : r.id \in MinRowidsSoft(rows)}

\* Faulty variant: UPDATE mentions SET timestamp = now, without the WHERE.
fix_all_timestamps(rows, now) == {[r EXCEPT !.timestamp = now] : r \in rows}

\* UPDATE mentions SET timestamp = now WHERE timestamp > now
fix_future_timestamps(rows, now) ==
    {IF TextLess(now, r.timestamp) THEN [r EXCEPT !.timestamp = now] ELSE r : r \in rows}

\* Faulty variant: the count is that of the rows of the table.
count_of_all_rows(rows, now) == Cardinality(rows)

\* cursor.rowcount of that UPDATE
updated_count(rows, now) == Cardinality({r \in rows : TextLess(now, r.timestamp)})

(***************************************************************************)
(* Summary and aggregation                                                 *)
(*                                                                         *)
(* The frame a plot draws is kept as its index (the months), its columns   *)
(* (the throw names) and one cell for every month and column.  A cell is   *)
(* a number rat + sqrt(root), both parts fractions of integers, so that a  *)
(* count, a percentage and mean + std are all exact.                       *)
(***************************************************************************)

\* The characters of a name, in the order of their code points.
CodePoints ==
    <<" ", "!", "(", ")", "0", "1", "2", "3", "4", "5", "6", "7", "8", "9">>
        \o UpperCase \o <<"_">> \o LowerCase

CodeOrder(c) == CHOOSE i \in 1..Len(CodePoints) : CodePoints[i] = c

\* a < b under the BINARY collation of the throw_name column.
RECURSIVE BinaryLess(_, _)
BinaryLess(a, b) ==
    IF a = <<>> THEN b # <<>>
    ELSE IF b = <<>> THEN FALSE
    ELSE IF Head(a) # Head(b) THEN CodeOrder(Head(a)) < CodeOrder(Head(b))
    ELSE BinaryLess(Tail(a), Tail(b))

\* The rows as a scan of the table yields them: by rowid.
RECURSIVE ScanTable(_)
ScanTable(rows) ==
    IF rows = {} THEN <<>>
    ELSE LET r == CHOOSE r \in rows : \A q \in rows : r.id <= q.id
         IN <<r>> \o ScanTable(rows \ {r})

\* The rows as a scan of idx_mentions_throw_name yields them: by throw_name,
\* and by rowid within one name.
RECURSIVE ScanThrowNameIndex(_)
ScanThrowNameIndex(rows) ==
    IF rows = {} THEN <<>>
    ELSE LET r == CHOOSE r \in rows : \A q \in rows :
                      \/ BinaryLess(r.throw_name, q.throw_name)
                      \/ r.throw_name = q.throw_name /\ r.id <= q.id
         IN <<r>> \o ScanThrowNameIndex(rows \ {r})

\* SELECT throw_name FROM mentions, which has no ORDER BY: SQLite answers it
\* from the index on throw_name when the table has one.
SelectThrowName(rows, has_index) ==
    LET scan == IF has_index THEN ScanThrowNameIndex(rows) ELSE ScanTable(rows)
    IN [i \in 1..Len(scan) |-> scan[i].throw_name]

\* Counter(seq)[name]
Counter(seq, name) == Cardinality({i \in DOMAIN seq : seq[i] = name})

\* The names of seq by falling count, names of equal count in the order of
\* their first place in seq: Counter.most_common() and, on the few names of
\* a table here, Series.value_counts().
RECURSIVE MostCommon(_, _)
MostCommon(names, seq) ==
    IF names = {} THEN <<>>
    ELSE LET first(n) == Min({i \in DOMAIN seq : seq[i] = n})
             top == CHOOSE n \in names : \A m \in names \ {n} :
                        \/ Counter(seq, n) > Counter(seq, m)
                        \/ Counter(seq, n) = Counter(seq, m) /\ first(n) < first(m)
         IN <<top>> \o MostCommon(names \ {top}, seq)

\* A timestamp text that is no date.
Unparsable == <<"not a date">>

\* a < b as SQLite compares two timestamp texts, of which either may be
\* Unparsable (its first character comes after every digit).
SqlTextLess(a, b) ==
    IF a = Unparsable THEN FALSE
    ELSE IF b = Unparsable THEN TRUE
    ELSE TextLess(a, b)

\* Faulty variant: the earliest timestamp is that of the row stored first.
FirstTimestamp(rows) ==
    IF rows = {} THEN None
    ELSE (CHOOSE r \in rows : \A q \in rows : r.id <= q.id).timestamp

\* SELECT MIN(timestamp), MAX(timestamp) FROM mentions
MinTimestamp(rows) ==
    IF rows = {} THEN None
    ELSE CHOOSE t \in {r.timestamp : r \in rows} :
             \A r \in rows : ~SqlTextLess(r.timestamp, t)

MaxTimestamp(rows) ==
    IF rows = {} THEN None
    ELSE CHOOSE t \in {r.timestamp : r \in rows} :
             \A r \in rows : ~SqlTextLess(t, r.timestamp)

\* What summarize_mentions prints: the total and the tally of the names its
\* first SELECT fetched, and the earliest and the latest timestamp of the
\* rows its second SELECT finds.
summarize_mentions(fetched, rows) ==
    LET ranked == MostCommon({fetched[i] : i \in DOMAIN fetched}, fetched)
    IN [total_mentions |-> Len(fetched),
        earliest |-> MinTimestamp(rows),
        latest |-> MaxTimestamp(rows),
        tally |-> [i \in DOMAIN ranked |-> <<ranked[i], Counter(fetched, ranked[i])>>]]

\* pandas' NaT
NaT == <<"NaT">>

\* Faulty variant: a text that is no date is taken for the start of the epoch.
to_datetime_epoch(timestamp) ==
    IF timestamp = Unparsable THEN <<1970, 1, 1, 0, 0, 0>> ELSE timestamp

\* pd.to_datetime(timestamp, errors="coerce")
to_datetime(timestamp) == IF timestamp = Unparsable THEN NaT ELSE timestamp

\* Faulty variant: the bucket of a time is its year.
YearOnly(t) == <<t[1], 1>>

\* dt.strftime("%Y-%m") / dt.to_period("M"), of a time that is not NaT.
YearMonth(t) == <<t[1], t[2]>>

\* df["throw_name"].value_counts().head(top_n).index.tolist()
top_throws(rows, top_n) ==
    LET scan   == ScanTable(rows)
        column == [i \in 1..Len(scan) |-> scan[i].throw_name]
        ranked == MostCommon({column[i] : i \in DOMAIN column}, column)
    IN SubSeq(ranked, 1, Min({top_n, Len(ranked)}))

\* df[df["throw_name"].isin(top_throws)]
df_top(rows, top_n) ==
    LET top == top_throws(rows, top_n)
    IN {r \in rows : \E i \in DOMAIN top : top[i] = r.throw_name}

\* The rows of df_top that groupby(["month", "throw_name"]) puts in a
\* group: it drops the rows whose month is missing.
Grouped(rows, top_n) == {r \in df_top(rows, top_n) : to_datetime(r.timestamp) # NaT}

\* .size() of the group of (month, throw_name)
GroupSize(grouped, month, throw_name) ==
    Cardinality({r \in grouped : /\ YearMonth(to_datetime(r.timestamp)) = month
                                 /\ r.throw_name = throw_name})

\* The number num / den.
Ratio(num, den) == [rat |-> <<num, den>>, root |-> <<0, 1>>]

\* Faulty variant: the month's total counts the mentions of every throw.
month_total_of_all(rows, grouped, month) ==
    Cardinality({r \in rows : /\ to_datetime(r.timestamp) # NaT
                              /\ YearMonth(to_datetime(r.timestamp)) = month})

\* grouped.groupby("month")["count"].sum()
month_total(rows, grouped, month) ==
    Cardinality({r \in grouped : YearMonth(to_datetime(r.timestamp)) = month})

\* plot_mentions_over_time of the kano scraper: pivot_df, the frame it
\* draws.  The index holds the months that have a group, the columns the
\* names that have one; fillna(0) fills the other cells.
plot_mentions_over_time(rows, top_n, normalize) ==
    LET grouped == Grouped(rows, top_n)
        index   == {YearMonth(to_datetime(r.timestamp)) : r \in grouped}
        columns == {r.throw_name : r \in grouped}
        value(month, throw) ==
            LET count == GroupSize(grouped, month, throw)
            IN IF count = 0 THEN Ratio(0, 1)
               ELSE IF normalize
                    THEN Ratio(count * 100, month_total(rows, grouped, month))
                    ELSE Ratio(count, 1)
    IN [index |-> index, columns |-> columns,
        cell |-> [p \in index \X columns |-> value(p[1], p[2])]]

\* month a is not after month b
MonthLeq(a, b) == a[1] < b[1] \/ (a[1] = b[1] /\ a[2] <= b[2])

\* pd.date_range(start, end, freq='MS') of two month starts
date_range(start, end) ==
    {m \in (start[1]..end[1]) \X (1..12) : MonthLeq(start, m) /\ MonthLeq(m, end)}

\* The sum of the values of a function.
RECURSIVE Sum(_)
Sum(f) ==
    IF DOMAIN f = {} THEN 0
    ELSE LET x == CHOOSE x \in DOMAIN f : TRUE
         IN f[x] + Sum([y \in DOMAIN f \ {x} |-> f[y]])

\* cap = mean_val + 1 * std_val
CapMultiplier == 1

\* std_val > 0, for col.std() the sample standard deviation of the column:
\* missing for a column of one month, 0 for a column of equal counts.
StdIsPositive(col) ==
    LET n == Cardinality(DOMAIN col)
    IN n >= 2 /\ n * Sum([m \in DOMAIN col |-> col[m] * col[m]]) > Sum(col) * Sum(col)

\* mean_val + CapMultiplier * std_val:
\* Sum/n + sqrt(CapMultiplier^2 * (n * SumSq - Sum^2) / (n * (n - 1)))
Cap(col) ==
    LET n == Cardinality(DOMAIN col)
    IN [rat  |-> <<Sum(col), n>>,
        root |-> <<CapMultiplier * CapMultiplier
                      * (n * Sum([m \in DOMAIN col |-> col[m] * col[m]])
                           - Sum(col) * Sum(col)),
                   n * (n - 1)>>]

\* Faulty variant: every count above the mean of the column is over the cap.
ExceedsMean(count, col) ==
    Cardinality(DOMAIN col) * count > Sum(col)

\* col > cap, for one count of the column
ExceedsCap(count, col) ==
    LET n == Cardinality(DOMAIN col)
        d == n * count - Sum(col)
    IN /\ d > 0
       /\ d * d * Cap(col).root[2] > Cap(col).root[1] * n * n

\* plot_mentions_over_time of the older scraper, when it raises nothing:
\* the index is every month from the first to the last that has a group, and
\* the counts above the cap of their column are cut to it.
plot_mentions_over_time_checkdup(rows, top_n) ==
    LET grouped == Grouped(rows, top_n)
        months  == {YearMonth(to_datetime(r.timestamp)) : r \in grouped}
        columns == {r.throw_name : r \in grouped}
        index   == IF months = {} THEN {}
                   ELSE date_range(CHOOSE a \in months : \A m \in months : MonthLeq(a, m),
                                   CHOOSE b \in months : \A m \in months : MonthLeq(m, b))
        col(throw) == [m \in index |-> GroupSize(grouped, m, throw)]
        value(month, throw) ==
            IF StdIsPositive(col(throw)) /\ ExceedsCap(col(throw)[month], col(throw))
            THEN Cap(col(throw))
            ELSE Ratio(col(throw)[month], 1)
    IN [index |-> index, columns |-> columns,
        cell |-> [p \in index \X columns |-> value(p[1], p[2])]]

(***************************************************************************)
(* Bounds and inputs                                                       *)
(***************************************************************************)

\* Runs of a scraper and of a script alongside it (the database file
\* outlives each run).
MaxRuns == 2

\* Runs of the kano scraper among them.
MaxKanoRuns == 1

\* Errors (a feed or storage exception) injected in one behaviour.
MaxFaults == 1

\* Runs of a script that go on while a scraper is running.
MaxOthers == 1

\* Times the listings of one run yield the same item.
MaxSeen == 2

\* Longest text the matcher is tried on alone.
MaxTextLen == 4

\* Rows of a table the summary and the plots are tried on alone.
MaxEvents == 3

\* Largest top_n the plots are tried with.
MaxTopN == 2

\* time_filters = ["hour", "day", "week", "month", "year", "all"]
NumTimeFilters == 6

OGoshi == <<"O", " ", "G", "o", "s", "h", "i">>

UchiMata == <<"U", "c", "h", "i", " ", "M", "a", "t", "a">>

\* What load_judo_throws may return: the table has no UNIQUE constraint.
Catalogs == {<<OGoshi, UchiMata>>, <<OGoshi, UchiMata, OGoshi>>}

\* Submissions of the subreddit: "O Goshi" / "vs uchi mata", and a link post
\* "uchi mata!" with no selftext.
Submission1 ==
    [id |-> "s1", title |-> OGoshi,
     selftext |-> <<"v", "s", " ", "u", "c", "h", "i", " ", "m", "a", "t", "a">>,
     url |-> <<"https://redd.it/s1">>, created_utc |-> 1706743800]

Submission2 ==
    [id |-> "s2", title |-> <<"u", "c", "h", "i", " ", "m", "a", "t", "a", "!">>,
     selftext |-> None,
     url |-> <<"https://redd.it/s2">>, created_utc |-> 1706749200]

Comment1 ==
    [id |-> "c1", body |-> <<"o", " ", "g", "o", "s", "h", "i">>,
     permalink |-> "/r/judo/comments/s1/c1", created_utc |-> 1704067200]

Submissions == {Submission1, Submission2}

Comments == {Comment1}

ItemIds == {x.id : x \in Submissions} \cup {x.id : x \in Comments}

\* What one listing (subreddit.top / subreddit.new) may yield.
SubmissionFeeds == {<<>>, <<Submission2, Submission1>>}

\* What subreddit.comments may yield.
CommentFeeds == {<<>>, <<Comment1>>}

\* Readings of the machine's clock, seconds since the epoch, in order.
ClockTicks == <<1706745600, 1709251200>>

\* Zones the machine may be in, seconds east of UTC.
TzOffsets == {3600}

\* timestamp=None of store_mention
NoTimestamp == <<>>

\* Characters and catalog entries the matcher is tried on alone.
Alphabet == {"a", "A", "b", " ", ")"}

EntryAb == <<"A", "b">>

EntryParen == <<"a", ")">>

Texts == {None} \cup UNION {[1..n -> Alphabet] : n \in 0..MaxTextLen}

\* A name, and a longer name that begins with it: "a" in "a b" and in "a)".
EntryA == <<"a">>

EntryAThenB == <<"a", " ", "b">>

MatcherCatalogs ==
    {<<EntryAb>>, <<EntryParen>>, <<EntryAb, EntryParen>>, <<EntryAb, EntryAb>>,
     <<EntryA, EntryAThenB>>, <<EntryA, EntryParen>>}

SeoiNage == <<"S", "e", "o", "i", " ", "N", "a", "g", "e">>

\* Names and timestamps of the rows the summary and the plots are tried on.
AggNames == {OGoshi, UchiMata, SeoiNage}

AggTimestamps == {<<2023, 12, 15, 10, 0, 0>>, <<2024, 2, 1, 0, 30, 0>>, Unparsable}

\* The tables of up to MaxEvents rows, with the rowids 1, 2, ...
AggTables ==
    {{[id |-> i, timestamp |-> events[i][2], type |-> "submission",
       post_id |-> "s1", url |-> <<"https://redd.it/s1">>,
       throw_name |-> events[i][1]] : i \in DOMAIN events} :
        events \in UNION {[1..n -> AggNames \X AggTimestamps] : n \in 0..MaxEvents}}

OSotoGari == <<"O", " ", "S", "o", "t", "o", " ", "G", "a", "r", "i">>

\* Six mentions: "Uchi Mata" three times and "O Soto Gari" once in January
\* 2024, "Uchi Mata" twice in February.
ScenarioEvents ==
    <<[throw_name |-> UchiMata,  timestamp |-> <<2024, 1, 5, 9, 0, 0>>,   post_id |-> "s1"],
      [throw_name |-> UchiMata,  timestamp |-> <<2024, 1, 12, 18, 30, 0>>, post_id |-> "s2"],
      [throw_name |-> OSotoGari, timestamp |-> <<2024, 1, 12, 18, 30, 0>>, post_id |-> "s2"],
      [throw_name |-> UchiMata,  timestamp |-> <<2024, 1, 31, 23, 59, 59>>, post_id |-> "s1"],
      [throw_name |-> UchiMata,  timestamp |-> <<2024, 2, 1, 0, 0, 0>>,   post_id |-> "s1"],
      [throw_name |-> UchiMata,  timestamp |-> <<2024, 2, 17, 7, 45, 0>>, post_id |-> "s2"]>>

\* The table after the six have been stored in this order, those of twice
\* stored two times in a row.
ScenarioTable(twice) ==
    LET first(k) == k + Cardinality({d \in twice : d < k})
        row(k, id) == [id |-> id, timestamp |-> ScenarioEvents[k].timestamp,
                       type |-> "submission", post_id |-> ScenarioEvents[k].post_id,
                       url |-> <<"https://redd.it/", ScenarioEvents[k].post_id>>,
                       throw_name |-> ScenarioEvents[k].throw_name]
    IN {row(k, first(k)) : k \in DOMAIN ScenarioEvents}
          \cup {row(k, first(k) + 1) : k \in twice}

ScenarioTables == {ScenarioTable(twice) : twice \in SUBSET DOMAIN ScenarioEvents}

(***************************************************************************)
(* State                                                                   *)
(***************************************************************************)

VARIABLES
    mentions,         \* the rows of the mentions table of judo_mentions.db
    sqlite_sequence,  \* the largest id AUTOINCREMENT has given
    indexed,          \* the table has the index on throw_name
    created,          \* the database file has the table mentions
    tick,             \* the clock: ClockTicks[tick] is the current time
    tz,               \* the zone of the machine
    others,           \* runs of a script that went on while a scraper was running
    other_todo,       \* the store_mention call such a run is in, its clock read
    script,           \* the script that runs: "idle", "kano", "checkdup"
    pc,               \* the step of its main() the script is at
    judo_throws,      \* the catalog the run loaded
    tf,               \* index of the time filter of scrape_by_time_periods
    in_pass,          \* inside match_submissions / match_comments
    listing,          \* the items the listing has still to yield
    todo,             \* the store_mention calls still to make for the current item
    matches,          \* matches of the current pass
    total_matches,    \* total_matches of scrape_by_time_periods
    before_count,     \* before_count of the duplicate removal under way
    removed,          \* removed of the last duplicate removal: rows before less rows after
    now,              \* now of fix_future_timestamps, once it has read the clock
    fixed_count,      \* the count fix_future_timestamps returned
    last_op,          \* the last statement that wrote to the table
    runs,             \* runs so far of a scraper or of a script alongside one
    kano_runs,        \* runs of the kano scraper so far
    faults,           \* errors injected so far
    failure,          \* the last exception a pass raised, and in which run
    run_start,        \* sqlite_sequence when the current run began
    seen,             \* how often a listing of the current run yielded each item
    raised,           \* an exception ended a pass of the current run
    m_text,           \* the matcher tried alone: its text,
    m_catalog,        \*   its catalog,
    m_called,         \*   the function called ("" before the call),
    m_found,          \*   its result,
    m_error,          \*   and the exception it raised ("" when none)
    a_called,         \* the summary or a plot tried alone: the function called,
    a_top_n,          \*   its top_n,
    a_normalize,      \*   its normalize,
    a_out,            \*   what it printed or drew,
    a_error           \*   and the exception it raised ("" when none)

db_vars == <<mentions, sqlite_sequence, indexed, created>>

env_vars == <<tick, tz, others, other_todo>>

run_vars == <<script, pc, judo_throws, tf, runs, kano_runs, run_start>>

pass_vars == <<in_pass, listing, todo, matches, total_matches, seen, raised, faults,
              failure>>

report_vars == <<removed, now, fixed_count, last_op, before_count>>

matcher_vars == <<m_text, m_catalog, m_called, m_found, m_error>>

agg_vars == <<a_called, a_top_n, a_normalize, a_out, a_error>>

vars == <<db_vars, env_vars, run_vars, pass_vars, report_vars, matcher_vars, agg_vars>>

\* time.gmtime() / datetime.now(): the clock, in UTC and in the local zone.
NowUtc == ClockTicks[tick]

NowLocal == fromtimestamp(ClockTicks[tick], tz)

\* No pass has raised yet.
NoFailure == [script |-> "", error |-> "", run |-> 0, since |-> 0]

\* The state before any script has run: there is no judo_mentions.db, and so
\* no table, no row and no index.
PipelineInit ==
    /\ mentions = {}
    /\ sqlite_sequence = 0
    /\ indexed = FALSE
    /\ created = FALSE
    /\ tick = 1
    /\ tz \in TzOffsets
    /\ others = 0
    /\ other_todo = <<>>
    /\ script = "idle"
    /\ pc = "done"
    /\ judo_throws = <<>>
    /\ tf = 1
    /\ in_pass = FALSE
    /\ listing = <<>>
    /\ todo = <<>>
    /\ matches = 0
    /\ total_matches = 0
    /\ before_count = 0
    /\ removed = 0
    /\ now = NoTimestamp
    /\ fixed_count = 0
    /\ last_op = ""
    /\ runs = 0
    /\ kano_runs = 0
    /\ faults = 0
    /\ failure = NoFailure
    /\ run_start = 0
    /\ seen = [i \in ItemIds |-> 0]
    /\ raised = FALSE

\* Nothing has been called alone.
MatcherIdle ==
    /\ m_text = <<>>
    /\ m_catalog = <<>>
    /\ m_called = ""
    /\ m_found = <<>>
    /\ m_error = ""

AggIdle ==
    /\ a_called = ""
    /\ a_top_n = 0
    /\ a_normalize = FALSE
    /\ a_out = <<>>
    /\ a_error = ""

Init ==
    /\ PipelineInit
    /\ MatcherIdle
    /\ AggIdle

(***************************************************************************)
(* The scripts                                                             *)
(***************************************************************************)

\* What a run leaves behind when its process ends: nothing but the table.
ProcessExit ==
    /\ script' = "idle"
    /\ pc' = "done"
    /\ judo_throws' = <<>>
    /\ tf' = 1
    /\ in_pass' = FALSE
    /\ listing' = <<>>
    /\ todo' = <<>>
    /\ matches' = 0
    /\ total_matches' = 0
    /\ now' = NoTimestamp
    /\ fixed_count' = 0
    /\ before_count' = 0
    /\ removed' = 0
    /\ seen' = [i \in ItemIds |-> 0]
    /\ raised' = FALSE
    /\ run_start' = sqlite_sequence

\* main() of either scraper up to its first pass: load_judo_throws and the
\* CREATE TABLE IF NOT EXISTS, which makes the table when there is none and
\* leaves an existing one alone.  Time may have passed since the run before.
StartRun(name, first_pc) ==
    /\ script = "idle"
    /\ runs < MaxRuns
    /\ \E c \in Catalogs : judo_throws' = c
    /\ \E t \in tick..Len(ClockTicks) : tick' = t
    /\ script' = name
    /\ pc' = first_pc
    /\ runs' = runs + 1
    /\ run_start' = sqlite_sequence
    /\ created' = TRUE
    /\ last_op' = IF created THEN last_op ELSE "create_table"
    /\ UNCHANGED <<mentions, sqlite_sequence, tz, others, other_todo, tf, pass_vars,
                   removed, now, fixed_count, before_count, matcher_vars, agg_vars>>

\* main() of the kano scraper up to the CREATE TABLE of initialize_database.
StartKano ==
    /\ kano_runs < MaxKanoRuns
    /\ kano_runs' = kano_runs + 1
    /\ indexed' = indexed
    /\ StartRun("kano", "create_index_timestamp")

\* One CREATE INDEX IF NOT EXISTS of initialize_database.  Each is a
\* statement of its own, and the file is not locked between two of them.
CreateIndex(has_index, then) ==
    /\ script = "kano"
    /\ indexed' = has_index
    /\ pc' = then
    /\ UNCHANGED <<mentions, sqlite_sequence, created, env_vars, script, judo_throws,
                   tf, runs, kano_runs, run_start, pass_vars, report_vars,
                   matcher_vars, agg_vars>>

CreateIndexTimestamp ==
    /\ pc = "create_index_timestamp"
    /\ CreateIndex(indexed, "create_index_throw_name")

\* idx_mentions_throw_name, which stays with the file.
CreateIndexThrowName ==
    /\ pc = "create_index_throw_name"
    /\ CreateIndex(TRUE, "create_index_post_id")

CreateIndexPostId ==
    /\ pc = "create_index_post_id"
    /\ CreateIndex(indexed, "scrape")

StartCheckdup ==
    /\ UNCHANGED <<kano_runs, indexed>>
    /\ StartRun("checkdup", "submissions")

\* match_submissions is entered: the listing is asked for.
BeginMatchSubmissions ==
    /\ script \in {"kano", "checkdup"}
    /\ pc \in {"scrape", "submissions"}
    /\ ~in_pass
    /\ \E l \in SubmissionFeeds :
          /\ \A i \in DOMAIN l : seen[l[i].id] < MaxSeen
          /\ listing' = l
    /\ in_pass' = TRUE
    /\ matches' = 0
    /\ UNCHANGED <<db_vars, env_vars, run_vars, todo, total_matches, seen, raised,
                   faults, failure, report_vars, matcher_vars, agg_vars>>

\* match_comments is entered.
BeginMatchComments ==
    /\ script \in {"kano", "checkdup"}
    /\ pc = "comments"
    /\ ~in_pass
    /\ \E l \in CommentFeeds :
          /\ \A i \in DOMAIN l : seen[l[i].id] < MaxSeen
          /\ listing' = l
    /\ in_pass' = TRUE
    /\ matches' = 0
    /\ UNCHANGED <<db_vars, env_vars, run_vars, todo, total_matches, seen, raised,
                   faults, failure, report_vars, matcher_vars, agg_vars>>

\* (submission.title or "") + " " + (submission.selftext or "")
post_text(submission) ==
    OrEmpty(submission.title) \o <<" ">> \o OrEmpty(submission.selftext)

\* comment.body or ""
comment_text(comment) == OrEmpty(comment.body)

\* The timestamp a pass hands to store_mention: the item's created_utc in
\* local time in the kano scraper, none in the older one.
formatted_time(item) ==
    IF script = "kano"
    THEN strftime(fromtimestamp(item.created_utc, tz))
    ELSE NoTimestamp

\* The store_mention calls of `for throw in found`.
Calls(found, mention_type, post_id, url, timestamp) ==
    [i \in 1..Len(found) |->
        [mention_type |-> mention_type, post_id |-> post_id, url |-> url,
         throw_name |-> found[i], timestamp |-> timestamp]]

\* One turn of `for submission in submissions`, up to the stores.
NextSubmission ==
    /\ in_pass
    /\ pc \in {"scrape", "submissions"}
    /\ todo = <<>>
    /\ listing # <<>>
    /\ LET submission == Head(listing)
           found == IF script = "kano"
                    THEN find_throws_in_text(post_text(submission), judo_throws)
                    ELSE find_throws_in_text_checkdup(post_text(submission), judo_throws)
       IN /\ matches' = matches + Len(found)
          /\ todo' = Calls(found, "submission", submission.id, submission.url,
                           formatted_time(submission))
          /\ seen' = [seen EXCEPT ![submission.id] = @ + 1]
    /\ listing' = Tail(listing)
    /\ UNCHANGED <<db_vars, env_vars, run_vars, in_pass, total_matches, raised,
                   faults, failure, report_vars, matcher_vars, agg_vars>>

\* One turn of `for comment in subreddit.comments(...)`, up to the stores.
NextComment ==
    /\ in_pass
    /\ pc = "comments"
    /\ todo = <<>>
    /\ listing # <<>>
    /\ LET comment == Head(listing)
           found == IF script = "kano"
                    THEN find_throws_in_text(comment_text(comment), judo_throws)
                    ELSE find_throws_in_text_checkdup(comment_text(comment), judo_throws)
       IN /\ matches' = matches + Len(found)
          /\ todo' = Calls(found, "comment", comment.id,
                           <<"https://www.reddit.com", comment.permalink>>,
                           formatted_time(comment))
          /\ seen' = [seen EXCEPT ![comment.id] = @ + 1]
    /\ listing' = Tail(listing)
    /\ UNCHANGED <<db_vars, env_vars, run_vars, in_pass, total_matches, raised,
                   faults, failure, report_vars, matcher_vars, agg_vars>>

\* Faulty variant: store_mention skips an event whose (post_id, throw_name) is stored.
store_mention_once(rows, seq, mention_type, post_id, url, throw_name, timestamp, utc) ==
    IF \E r \in rows : r.post_id = post_id /\ r.throw_name = throw_name
    THEN rows
    ELSE rows \cup {[id |-> seq + 1,
                     timestamp |-> IF timestamp = NoTimestamp THEN strftime(utc)
                                   ELSE timestamp,
                     type |-> mention_type, post_id |-> post_id, url |-> url,
                     throw_name |-> throw_name]}

\* store_mention of the kano scraper: the given timestamp, or the current
\* UTC time when none is given.
store_mention(rows, seq, mention_type, post_id, url, throw_name, timestamp, utc) ==
    Insert(rows, seq,
           IF timestamp = NoTimestamp THEN strftime(utc) ELSE timestamp,
           mention_type, post_id, url, throw_name)

\* store_mention of the older scraper from its connect on: the INSERT of the
\* timestamp the call has read.
store_mention_checkdup(rows, seq, mention_type, post_id, url, throw_name, timestamp) ==
    Insert(rows, seq, timestamp, mention_type, post_id, url, throw_name)

\* The first statement of store_mention of the older scraper: the timestamp
\* is the UTC time now, and time may have passed since the last reading.
\* The database is opened only after it, so a statement of another process
\* can fall between this reading and the INSERT.
StoreMentionTimestamp ==
    /\ script = "checkdup"
    /\ in_pass
    /\ todo # <<>>
    /\ Head(todo).timestamp = NoTimestamp
    /\ \E t \in tick..Len(ClockTicks) :
          /\ tick' = t
          /\ todo' = <<[Head(todo) EXCEPT !.timestamp = strftime(ClockTicks[t])]>>
                         \o Tail(todo)
    /\ UNCHANGED <<db_vars, tz, others, other_todo, run_vars, in_pass, listing,
                   matches, total_matches, seen, raised, faults, failure,
                   report_vars, matcher_vars, agg_vars>>

\* The INSERT of one store_mention call of `for throw in found`.  The kano
\* scraper is handed the timestamp; the older one stores the one it has read.
StoreMention ==
    /\ in_pass
    /\ todo # <<>>
    /\ script = "kano" \/ Head(todo).timestamp # NoTimestamp
    /\ LET c == Head(todo)
       IN mentions' = IF script = "kano"
                      THEN store_mention(mentions, sqlite_sequence, c.mention_type,
                                         c.post_id, c.url, c.throw_name,
                                         c.timestamp, NowUtc)
                      ELSE store_mention_checkdup(mentions, sqlite_sequence,
                                                  c.mention_type, c.post_id, c.url,
                                                  c.throw_name, c.timestamp)
    /\ sqlite_sequence' = sqlite_sequence + 1
    /\ todo' = Tail(todo)
    /\ last_op' = "store_mention"
    /\ UNCHANGED <<indexed, created, env_vars, run_vars, in_pass, listing, matches,
                   total_matches, seen, raised, faults, failure, removed, now,
                   fixed_count, before_count, matcher_vars, agg_vars>>

\* The next statement of the pass raises: store_mention (an sqlite3 error)
\* when a store is due, the listing (a Reddit API error) when the next item
\* is.  The kano scraper catches it, prints it and returns matches; the older
\* scraper has no handler and the run ends.
PassRaises ==
    /\ in_pass
    /\ faults < MaxFaults
    /\ todo # <<>> \/ listing # <<>>
    /\ faults' = faults + 1
    /\ failure' = [script |-> script,
                   error |-> IF todo # <<>> THEN "storage" ELSE "feed",
                   run |-> runs, since |-> run_start]
    /\ IF script = "kano"
       THEN /\ listing' = <<>>
            /\ todo' = <<>>
            /\ raised' = TRUE
            /\ UNCHANGED <<script, pc, judo_throws, tf, run_start, in_pass, matches,
                           total_matches, seen, removed, now, fixed_count,
                           before_count>>
       ELSE ProcessExit
    /\ UNCHANGED <<db_vars, env_vars, runs, kano_runs, last_op, matcher_vars, agg_vars>>

\* The pass returns.  scrape_by_time_periods adds its matches and goes to
\* the next time filter; after the last one main() goes on.
EndPass ==
    /\ in_pass
    /\ todo = <<>>
    /\ listing = <<>>
    /\ in_pass' = FALSE
    /\ IF pc = "scrape"
       THEN /\ total_matches' = total_matches + matches
            /\ IF tf < NumTimeFilters
               THEN tf' = tf + 1 /\ pc' = pc
               ELSE tf' = tf /\ pc' = "comments"
       ELSE /\ UNCHANGED <<total_matches, tf>>
            /\ pc' = IF pc = "submissions" THEN "comments"
                     ELSE IF script = "kano" THEN "fix" ELSE "remove_exact"
    /\ UNCHANGED <<db_vars, env_vars, script, judo_throws, runs, kano_runs,
                   run_start, listing, todo, matches, seen, raised, faults,
                   failure, report_vars, matcher_vars, agg_vars>>

\* verify_timestamps (which only reads) and fix_future_timestamps up to its
\* now = datetime.now(): the local time, of which time may have passed since
\* the last reading.  No statement has been run on the connection yet, so
\* the file is not locked and a write of another process can follow.
FixFutureTimestampsNow ==
    /\ script = "kano"
    /\ pc = "fix"
    /\ \E t \in tick..Len(ClockTicks) :
          /\ tick' = t
          /\ now' = strftime(fromtimestamp(ClockTicks[t], tz))
    /\ pc' = "fix_update"
    /\ UNCHANGED <<db_vars, tz, others, other_todo, script, judo_throws, tf, runs,
                   kano_runs, run_start, pass_vars, removed, fixed_count, last_op,
                   before_count, matcher_vars, agg_vars>>

\* The UPDATE of fix_future_timestamps, with the now it has read, and its
\* rowcount.
FixFutureTimestamps ==
    /\ script = "kano"
    /\ pc = "fix_update"
    /\ mentions' = fix_future_timestamps(mentions, now)
    /\ fixed_count' = updated_count(mentions, now)
    /\ last_op' = "fix_future_timestamps"
    /\ pc' = "remove_exact"
    /\ UNCHANGED <<sqlite_sequence, indexed, created, env_vars, script, judo_throws,
                   tf, runs, kano_runs, run_start, pass_vars, removed, now,
                   before_count, matcher_vars, agg_vars>>

\* SELECT COUNT(*) of remove_exact_duplicates of the kano scraper, which is
\* read before the DELETE takes the write lock.
CountBeforeRemoveExact ==
    /\ script = "kano"
    /\ pc = "remove_exact"
    /\ before_count' = Cardinality(mentions)
    /\ pc' = "delete_exact"
    /\ UNCHANGED <<db_vars, env_vars, script, judo_throws, tf, runs, kano_runs,
                   run_start, pass_vars, removed, now, fixed_count, last_op,
                   matcher_vars, agg_vars>>

\* SELECT COUNT(*) of remove_soft_duplicates of the kano scraper.
CountBeforeRemoveSoft ==
    /\ script = "kano"
    /\ pc = "remove_soft"
    /\ before_count' = Cardinality(mentions)
    /\ pc' = "delete_soft"
    /\ UNCHANGED <<db_vars, env_vars, script, judo_throws, tf, runs, kano_runs,
                   run_start, pass_vars, removed, now, fixed_count, last_op,
                   matcher_vars, agg_vars>>

\* The DELETE of remove_exact_duplicates, and in the kano scraper the second
\* count, read under the lock of the DELETE: removed = before_count -
\* after_count.  The older scraper counts nothing; removed is then the
\* number of rows its DELETE took out.
RemoveExactDuplicates ==
    /\ \/ script = "kano" /\ pc = "delete_exact"
       \/ script = "checkdup" /\ pc = "remove_exact"
    /\ mentions' = remove_exact_duplicates(mentions)
    /\ removed' = (IF script = "kano" THEN before_count ELSE Cardinality(mentions))
                     - Cardinality(mentions')
    /\ last_op' = "remove_exact_duplicates"
    /\ pc' = "remove_soft"
    /\ UNCHANGED <<sqlite_sequence, indexed, created, env_vars, script, judo_throws,
                   tf, runs, kano_runs, run_start, pass_vars, now, fixed_count,
                   before_count, matcher_vars, agg_vars>>

RemoveSoftDuplicates ==
    /\ \/ script = "kano" /\ pc = "delete_soft"
       \/ script = "checkdup" /\ pc = "remove_soft"
    /\ mentions' = remove_soft_duplicates(mentions)
    /\ removed' = (IF script = "kano" THEN before_count ELSE Cardinality(mentions))
                     - Cardinality(mentions')
    /\ last_op' = "remove_soft_duplicates"
    /\ pc' = "summarize"
    /\ UNCHANGED <<sqlite_sequence, indexed, created, env_vars, script, judo_throws,
                   tf, runs, kano_runs, run_start, pass_vars, now, fixed_count,
                   before_count, matcher_vars, agg_vars>>

\* summarize_mentions and the plots read the table; then main() returns.
Summarize ==
    /\ script \in {"kano", "checkdup"}
    /\ pc = "summarize"
    /\ ProcessExit
    /\ UNCHANGED <<db_vars, env_vars, runs, kano_runs, faults, failure, last_op,
                   matcher_vars, agg_vars>>

\* A script that is started while a scraper runs: nothing in the code keeps
\* it from running, and its statements fall between those of the scraper.
\* Such runs are counted, up to MaxOthers and as runs up to MaxRuns.
Concurrently ==
    IF script = "idle"
    THEN others' = others /\ runs' = runs
    ELSE /\ others < MaxOthers
         /\ others' = others + 1
         /\ runs < MaxRuns
         /\ runs' = runs + 1

\* deleteduplicates.py with remove_exact_duplicates chosen.  Where there is
\* no table yet the DELETE raises sqlite3.OperationalError and nothing is
\* changed.
DeleteExactDuplicates ==
    /\ created
    /\ Concurrently
    /\ mentions' = remove_exact_duplicates(mentions)
    /\ last_op' = "remove_exact_duplicates"
    /\ removed' = Cardinality(mentions) - Cardinality(mentions')
    /\ UNCHANGED <<sqlite_sequence, indexed, created, tick, tz, other_todo, script,
                   pc, judo_throws, tf, kano_runs, run_start, pass_vars, now,
                   fixed_count, before_count, matcher_vars, agg_vars>>

\* deleteduplicates.py with remove_soft_duplicates chosen.
DeleteSoftDuplicates ==
    /\ created
    /\ Concurrently
    /\ mentions' = remove_soft_duplicates(mentions)
    /\ last_op' = "remove_soft_duplicates"
    /\ removed' = Cardinality(mentions) - Cardinality(mentions')
    /\ UNCHANGED <<sqlite_sequence, indexed, created, tick, tz, other_todo, script,
                   pc, judo_throws, tf, kano_runs, run_start, pass_vars, now,
                   fixed_count, before_count, matcher_vars, agg_vars>>

\* The store_mention calls a run of the older scraper makes for the items
\* of the subreddit.
OtherCalls ==
    UNION {{Calls(find_throws_in_text_checkdup(post_text(s), c), "submission", s.id,
                  s.url, NoTimestamp)[i] :
               i \in 1..Len(find_throws_in_text_checkdup(post_text(s), c))} :
              s \in Submissions, c \in Catalogs}
      \cup
    UNION {{Calls(find_throws_in_text_checkdup(comment_text(k), c), "comment", k.id,
                  <<"https://www.reddit.com", k.permalink>>, NoTimestamp)[i] :
               i \in 1..Len(find_throws_in_text_checkdup(comment_text(k), c))} :
              k \in Comments, c \in Catalogs}

\* The first statement of a store_mention call of a second run of the older
\* scraper that goes on at the same time as the scraper: it reads the clock.
OtherStoreMentionTimestamp ==
    /\ script # "idle"
    /\ other_todo = <<>>
    /\ Concurrently
    /\ \E c \in OtherCalls : \E t \in tick..Len(ClockTicks) :
          /\ tick' = t
          /\ other_todo' = <<[c EXCEPT !.timestamp = strftime(ClockTicks[t])]>>
    /\ UNCHANGED <<db_vars, tz, script, pc, judo_throws, tf, kano_runs, run_start,
                   pass_vars, report_vars, matcher_vars, agg_vars>>

\* The INSERT of that call, of the timestamp it has read, whatever the
\* scraper or the clock has done since.  The second run is followed for as
\* long as the scraper runs.
OtherStoreMention ==
    /\ script # "idle"
    /\ other_todo # <<>>
    /\ LET c == Head(other_todo)
       IN mentions' = store_mention_checkdup(mentions, sqlite_sequence,
                                             c.mention_type, c.post_id, c.url,
                                             c.throw_name, c.timestamp)
    /\ sqlite_sequence' = sqlite_sequence + 1
    /\ other_todo' = <<>>
    /\ last_op' = "store_mention"
    /\ UNCHANGED <<indexed, created, tick, tz, others, run_vars, pass_vars, removed,
                   now, fixed_count, before_count, matcher_vars, agg_vars>>

Next ==
    \/ StartKano
    \/ CreateIndexTimestamp
    \/ CreateIndexThrowName
    \/ CreateIndexPostId
    \/ StartCheckdup
    \/ BeginMatchSubmissions
    \/ BeginMatchComments
    \/ NextSubmission
    \/ NextComment
    \/ StoreMentionTimestamp
    \/ StoreMention
    \/ PassRaises
    \/ EndPass
    \/ FixFutureTimestampsNow
    \/ FixFutureTimestamps
    \/ CountBeforeRemoveExact
    \/ CountBeforeRemoveSoft
    \/ RemoveExactDuplicates
    \/ RemoveSoftDuplicates
    \/ Summarize
    \/ DeleteExactDuplicates
    \/ DeleteSoftDuplicates
    \/ OtherStoreMentionTimestamp
    \/ OtherStoreMention

Spec == Init /\ [][Next]_vars

(***************************************************************************)
(* The matcher tried alone, on every text of up to MaxTextLen characters   *)
(***************************************************************************)

MatchInit ==
    /\ PipelineInit
    /\ AggIdle
    /\ m_text \in Texts
    /\ m_catalog \in MatcherCatalogs
    /\ m_called = ""
    /\ m_found = <<>>
    /\ m_error = ""

CallFindThrows ==
    /\ m_called = ""
    /\ m_called' = "find_throws_in_text"
    /\ m_found' = find_throws_in_text(m_text, m_catalog)
    /\ UNCHANGED <<db_vars, env_vars, run_vars, pass_vars, report_vars, m_text,
                   m_catalog, m_error, agg_vars>>

\* text.lower() of None raises AttributeError.
CallFindThrowsCheckdup ==
    /\ m_called = ""
    /\ m_called' = "find_throws_in_text_checkdup"
    /\ IF m_text = None
       THEN m_error' = "AttributeError" /\ m_found' = m_found
       ELSE m_error' = m_error
            /\ m_found' = find_throws_in_text_checkdup(m_text, m_catalog)
    /\ UNCHANGED <<db_vars, env_vars, run_vars, pass_vars, report_vars, m_text,
                   m_catalog, agg_vars>>

CallFindInstructionals ==
    /\ m_called = ""
    /\ m_called' = "find_instructionals_in_text"
    /\ IF m_text = None
       THEN m_error' = "AttributeError" /\ m_found' = m_found
       ELSE m_error' = m_error
            /\ m_found' = find_instructionals_in_text(m_text, m_catalog)
    /\ UNCHANGED <<db_vars, env_vars, run_vars, pass_vars, report_vars, m_text,
                   m_catalog, agg_vars>>

MatchNext ==
    \/ CallFindThrows
    \/ CallFindThrowsCheckdup
    \/ CallFindInstructionals

MatchSpec == MatchInit /\ [][MatchNext]_vars

(***************************************************************************)
(* The summary and the plots tried alone, on every table of up to          *)
(* MaxEvents rows                                                          *)
(***************************************************************************)

AggInit ==
    /\ mentions \in AggTables
    /\ sqlite_sequence = Cardinality(mentions)
    /\ indexed \in BOOLEAN
    /\ created = TRUE
    /\ tick = 1
    /\ tz \in TzOffsets
    /\ others = 0
    /\ other_todo = <<>>
    /\ script = "idle"
    /\ pc = "done"
    /\ judo_throws = <<>>
    /\ tf = 1
    /\ in_pass = FALSE
    /\ listing = <<>>
    /\ todo = <<>>
    /\ matches = 0
    /\ total_matches = 0
    /\ before_count = 0
    /\ removed = 0
    /\ now = NoTimestamp
    /\ fixed_count = 0
    /\ last_op = IF mentions = {} THEN "create_table" ELSE "store_mention"
    /\ runs = 0
    /\ kano_runs = 0
    /\ faults = 0
    /\ failure = NoFailure
    /\ run_start = sqlite_sequence
    /\ seen = [i \in ItemIds |-> 0]
    /\ raised = FALSE
    /\ MatcherIdle
    /\ AggIdle

\* summarize_mentions up to rows = cursor.fetchall(): the names of its first
\* SELECT.  The connection holds no transaction, so the file is not locked
\* when the SELECT has returned.
SummarizeSelectThrowName ==
    /\ a_called = ""
    /\ a_called' = "SELECT throw_name FROM mentions"
    /\ a_out' = SelectThrowName(mentions, indexed)
    /\ UNCHANGED <<db_vars, env_vars, run_vars, pass_vars, report_vars, matcher_vars,
                   a_top_n, a_normalize, a_error>>

\* The rest of summarize_mentions: its second SELECT and what it prints.
SummarizeSelectMinMax ==
    /\ a_called = "SELECT throw_name FROM mentions"
    /\ a_called' = "summarize_mentions"
    /\ a_out' = summarize_mentions(a_out, mentions)
    /\ UNCHANGED <<db_vars, env_vars, run_vars, pass_vars, report_vars, matcher_vars,
                   a_top_n, a_normalize, a_error>>

\* A statement of another process that writes to the table between the two
\* SELECTs of summarize_mentions; such statements are counted, up to
\* MaxOthers.
BetweenSelects ==
    /\ a_called = "SELECT throw_name FROM mentions"
    /\ others < MaxOthers
    /\ others' = others + 1
    /\ UNCHANGED <<indexed, created, tick, tz, other_todo, run_vars, pass_vars, now,
                   fixed_count, before_count, matcher_vars, agg_vars>>

\* store_mention of the kano scraper, called by another process.
StoreBetweenSelects ==
    /\ BetweenSelects
    /\ \E name \in AggNames : \E timestamp \in AggTimestamps \ {Unparsable} :
          mentions' = store_mention(mentions, sqlite_sequence, "submission", "s1",
                                    <<"https://redd.it/s1">>, name, timestamp, NowUtc)
    /\ sqlite_sequence' = sqlite_sequence + 1
    /\ last_op' = "store_mention"
    /\ removed' = removed

\* deleteduplicates.py, run by another process, with either removal chosen.
DeleteExactBetweenSelects ==
    /\ BetweenSelects
    /\ mentions' = remove_exact_duplicates(mentions)
    /\ last_op' = "remove_exact_duplicates"
    /\ removed' = Cardinality(mentions) - Cardinality(mentions')
    /\ sqlite_sequence' = sqlite_sequence

DeleteSoftBetweenSelects ==
    /\ BetweenSelects
    /\ mentions' = remove_soft_duplicates(mentions)
    /\ last_op' = "remove_soft_duplicates"
    /\ removed' = Cardinality(mentions) - Cardinality(mentions')
    /\ sqlite_sequence' = sqlite_sequence

CallPlotMentionsOverTime ==
    /\ a_called = ""
    /\ a_called' = "plot_mentions_over_time"
    /\ \E top_n \in 1..MaxTopN : \E normalize \in BOOLEAN :
          /\ a_top_n' = top_n
          /\ a_normalize' = normalize
          /\ a_out' = plot_mentions_over_time(mentions, top_n, normalize)
    /\ UNCHANGED <<db_vars, env_vars, run_vars, pass_vars, report_vars, matcher_vars,
                   a_error>>

\* In the older scraper the month of a row is r.start_time of its period,
\* taken row by row with apply.  For a row whose timestamp is NaT this
\* depends on the pandas installed: one that hands the whole column to the
\* lambda keeps NaT, and the row is dropped as above; one that hands it row
\* by row raises AttributeError, as NaT has no start_time.
CallPlotMentionsOverTimeCheckdup ==
    /\ a_called = ""
    /\ a_called' = "plot_mentions_over_time_checkdup"
    /\ \E top_n \in 1..MaxTopN :
          /\ a_top_n' = top_n
          /\ \/ /\ a_out' = plot_mentions_over_time_checkdup(mentions, top_n)
                /\ a_error' = a_error
             \/ /\ \E r \in df_top(mentions, top_n) : to_datetime(r.timestamp) = NaT
                /\ a_out' = a_out
                /\ a_error' = "AttributeError"
    /\ UNCHANGED <<db_vars, env_vars, run_vars, pass_vars, report_vars, matcher_vars,
                   a_normalize>>

AggNext ==
    \/ SummarizeSelectThrowName
    \/ StoreBetweenSelects
    \/ DeleteExactBetweenSelects
    \/ DeleteSoftBetweenSelects
    \/ SummarizeSelectMinMax
    \/ CallPlotMentionsOverTime
    \/ CallPlotMentionsOverTimeCheckdup

AggSpec == AggInit /\ [][AggNext]_vars

(***************************************************************************)
(* deleteduplicates.py and then the summary or a plot, on the tables of    *)
(* the six mentions                                                        *)
(***************************************************************************)

ScenarioInit ==
    /\ mentions \in ScenarioTables
    /\ sqlite_sequence = Cardinality(mentions)
    /\ indexed \in BOOLEAN
    /\ created = TRUE
    /\ tick = 1
    /\ tz \in TzOffsets
    /\ others = 0
    /\ other_todo = <<>>
    /\ script = "idle"
    /\ pc = "done"
    /\ judo_throws = <<>>
    /\ tf = 1
    /\ in_pass = FALSE
    /\ listing = <<>>
    /\ todo = <<>>
    /\ matches = 0
    /\ total_matches = 0
    /\ before_count = 0
    /\ removed = 0
    /\ now = NoTimestamp
    /\ fixed_count = 0
    /\ last_op = "store_mention"
    /\ runs = 0
    /\ kano_runs = 0
    /\ faults = 0
    /\ failure = NoFailure
    /\ run_start = sqlite_sequence
    /\ seen = [i \in ItemIds |-> 0]
    /\ raised = FALSE
    /\ MatcherIdle
    /\ AggIdle

\* deleteduplicates.py, run before the summary and the plots.
DeleteExactDuplicatesFirst ==
    /\ a_called = ""
    /\ DeleteExactDuplicates

ScenarioNext ==
    \/ DeleteExactDuplicatesFirst
    \/ SummarizeSelectThrowName
    \/ StoreBetweenSelects
    \/ DeleteExactBetweenSelects
    \/ DeleteSoftBetweenSelects
    \/ SummarizeSelectMinMax
    \/ CallPlotMentionsOverTime
    \/ CallPlotMentionsOverTimeCheckdup

ScenarioSpec == ScenarioInit /\ [][ScenarioNext]_vars

(***************************************************************************)
(* Properties                                                              *)
(***************************************************************************)

\* No two rows of the table have the same id.
IdsUnique == \A r, q \in mentions : r.id = q.id => r = q

\* entry occurs in text at offset i, letters compared without case.
OccursAt(entry, text, i) ==
    /\ i + Len(entry) <= Len(text)
    /\ \A k \in 1..Len(entry) : LowerChar(entry[k]) = LowerChar(text[i + k])

\* The occurrence at offset i has a non-word character or the edge of the
\* text on both sides.
IsWholeWordAt(entry, text, i) ==
    /\ OccursAt(entry, text, i)
    /\ i = 0 \/ ~IsWordChar(text[i])
    /\ i + Len(entry) = Len(text) \/ ~IsWordChar(text[i + Len(entry) + 1])

ContainsWholeWord(entry, text) ==
    \E i \in 0..Len(text) : IsWholeWordAt(entry, text, i)

\* entry occurs in text, and every occurrence touches a word character.
OnlyInsideLargerWord(entry, text) ==
    /\ \E i \in 0..Len(text) : OccursAt(entry, text, i)
    /\ ~ContainsWholeWord(entry, text)

InCatalog(seq) == {seq[i] : i \in DOMAIN seq}

\* C1: for every catalog entry and every text, match includes the entry when
\* the text holds it (without regard to case) as a whole word, with a
\* non-word character or the edge of the text on both sides, and excludes it
\* when the text holds it only inside a larger word; also for an entry whose
\* first or last character is not a word character.
C1_WholeWordMatch ==
    (m_called = "find_throws_in_text" /\ m_text # None) =>
        \A entry \in InCatalog(m_catalog) :
            /\ ContainsWholeWord(entry, m_text) => entry \in InCatalog(m_found)
            /\ OnlyInsideLargerWord(entry, m_text) => entry \notin InCatalog(m_found)

\* The two rows are in the same (timestamp, post_id, throw_name) group.
SameExactKey(r, q) ==
    /\ r.timestamp = q.timestamp
    /\ r.post_id = q.post_id
    /\ r.throw_name = q.throw_name

\* The two rows are in the same (post_id, throw_name) group.
SameSoftKey(r, q) == r.post_id = q.post_id /\ r.throw_name = q.throw_name

\* A step that runs remove_exact_duplicates / remove_soft_duplicates.
ExactStep == RemoveExactDuplicates \/ DeleteExactDuplicates

SoftStep == RemoveSoftDuplicates \/ DeleteSoftDuplicates

\* C2: remove_exact_duplicates leaves, of every (timestamp, post_id,
\* throw_name) group, the row with the smallest id and no other row.
C2_DedupExactKeepsEarliest ==
    [][ExactStep =>
        /\ mentions' \subseteq mentions
        /\ \A r \in mentions :
              r \in mentions' <=>
                  \A q \in mentions : SameExactKey(r, q) => r.id <= q.id]_vars

\* An exact pass has just removed rows and left others.
C2_Witness ==
    /\ last_op = "remove_exact_duplicates"
    /\ removed > 0
    /\ mentions # {}

\* C3: remove_soft_duplicates leaves, of every (post_id, throw_name) group,
\* the row with the smallest id and no other row, whatever the timestamps.
C3_DedupSoftKeepsEarliest ==
    [][SoftStep =>
        /\ mentions' \subseteq mentions
        /\ \A r \in mentions :
              r \in mentions' <=>
                  \A q \in mentions : SameSoftKey(r, q) => r.id <= q.id]_vars

\* In main(), where the exact pass has come first, the soft pass has just
\* removed rows: rows that differed from the row kept in their timestamp.
C3_Witness ==
    /\ pc = "summarize"
    /\ last_op = "remove_soft_duplicates"
    /\ removed > 0

\* C4: a second consecutive call of either removal removes zero rows: in
\* every state whose last write to the table was remove_exact_duplicates
\* (remove_soft_duplicates), the count that a further call of it would
\* print, rows before minus rows after, is 0.
C4_DedupIdempotent ==
    /\ last_op = "remove_exact_duplicates" =>
          Cardinality(mentions) - Cardinality(remove_exact_duplicates(mentions)) = 0
    /\ last_op = "remove_soft_duplicates" =>
          Cardinality(mentions) - Cardinality(remove_soft_duplicates(mentions)) = 0

\* deleteduplicates.py has just removed soft duplicates and can be run again.
C4_Witness ==
    /\ script = "idle"
    /\ last_op = "remove_soft_duplicates"
    /\ removed > 0
    /\ mentions # {}

\* C5: remove_exact_duplicates followed by remove_soft_duplicates leaves the
\* same rows as remove_soft_duplicates alone, on every content of the table.
C5_ExactThenSoftIsSoft ==
    remove_soft_duplicates(remove_exact_duplicates(mentions))
        = remove_soft_duplicates(mentions)

\* main() is about to run the two passes on a table in which the exact pass
\* removes rows and the soft pass removes further rows.
C5_Witness ==
    /\ pc = "remove_exact"
    /\ remove_exact_duplicates(mentions) # mentions
    /\ remove_soft_duplicates(mentions) # remove_exact_duplicates(mentions)

\* C6: rows left by the soft pass <= rows left by the exact pass <= rows
\* before any pass, on every content of the table.
C6_CountsOrdered ==
    /\ Cardinality(remove_soft_duplicates(mentions))
          <= Cardinality(remove_exact_duplicates(mentions))
    /\ Cardinality(remove_exact_duplicates(mentions)) <= Cardinality(mentions)

\* A table on which the three counts differ.
C6_Witness ==
    /\ Cardinality(remove_soft_duplicates(mentions))
          < Cardinality(remove_exact_duplicates(mentions))
    /\ Cardinality(remove_exact_duplicates(mentions)) < Cardinality(mentions)

\* What the clock reading of a store_mention call leaves of the call.
Given(call) == [call EXCEPT !.timestamp = NoTimestamp]

\* C7: the INSERT of store_mention adds exactly one row, with a new id and
\* the fields of the call (for the timestamp the one it was given or, in the
\* older scraper, the one the call has read), and leaves every other row as
\* it was, also when a row with the same content is stored already; the
\* reading before it gives the call the UTC time of that moment, changes no
\* other field of it and does not touch the table.
C7_RecordAppendsOne ==
    [][/\ StoreMention =>
             \E r \in mentions' :
                 /\ r \notin mentions
                 /\ mentions' = mentions \cup {r}
                 /\ Cardinality(mentions') = Cardinality(mentions) + 1
                 /\ \A q \in mentions : q.id < r.id
                 /\ r.type = Head(todo).mention_type
                 /\ r.post_id = Head(todo).post_id
                 /\ r.url = Head(todo).url
                 /\ r.throw_name = Head(todo).throw_name
                 /\ r.timestamp = Head(todo).timestamp
                 /\ r.timestamp # NoTimestamp
       /\ StoreMentionTimestamp =>
             /\ mentions' = mentions
             /\ Head(todo').timestamp = strftime(NowUtc)'
             /\ Given(Head(todo')) = Head(todo)
             /\ Tail(todo') = Tail(todo)]_vars

\* The row just stored has the content of a row stored before.
C7_Witness ==
    /\ last_op = "store_mention"
    /\ \E r, q \in mentions :
          /\ r.id = sqlite_sequence
          /\ q.id < r.id
          /\ [q EXCEPT !.id = r.id] = r

\* A step that removes duplicates.
DedupStep == ExactStep \/ SoftStep

\* C8 as stated: no step changes a field of a row that stays in the table,
\* and only a duplicate removal takes a row out.
C8_NeverUpdated ==
    [][\A r \in mentions :
          /\ \A q \in mentions' : q.id = r.id => q = r
          /\ (\A q \in mentions' : q.id # r.id) => DedupStep]_vars

\* C8 as the code has it: no step changes the type, post_id, url or
\* throw_name of a row that stays in the table; its timestamp changes only in
\* the UPDATE of fix_future_timestamps, from a value later than now, the
\* local time the call has read before it, to now; and only a duplicate
\* removal takes a row out.
C8_OnlyFixUpdates ==
    [][\A r \in mentions :
          /\ \A q \in mentions' : q.id = r.id =>
                /\ [q EXCEPT !.timestamp = r.timestamp] = r
                /\ \/ q.timestamp = r.timestamp
                   \/ /\ FixFutureTimestamps
                      /\ TextLess(now, r.timestamp)
                      /\ q.timestamp = now
          /\ (\A q \in mentions' : q.id # r.id) => DedupStep]_vars

\* fix_future_timestamps has just rewritten some rows and left others.
C8_Witness ==
    /\ last_op = "fix_future_timestamps"
    /\ fixed_count > 0
    /\ fixed_count < Cardinality(mentions)

\* The rows of the current run for one (post_id, throw_name) pair.
RunRows(post_id, throw_name) ==
    {r \in mentions : /\ r.id > run_start
                      /\ r.post_id = post_id
                      /\ r.throw_name = throw_name}

\* The store_mention calls still to make for the pair.
Pending(post_id, throw_name) ==
    {i \in DOMAIN todo : /\ todo[i].post_id = post_id
                         /\ todo[i].throw_name = throw_name}

\* The text the kano scraper matches for the item with this id.
TextOfItem(post_id) ==
    IF \E x \in Submissions : x.id = post_id
    THEN post_text(CHOOSE x \in Submissions : x.id = post_id)
    ELSE comment_text(CHOOSE x \in Comments : x.id = post_id)

\* The places of this name in the result of the matcher for the item: one
\* for each catalog entry with this name that the matcher finds in the text.
MatchedEntries(post_id, throw_name) ==
    LET found == find_throws_in_text(TextOfItem(post_id), judo_throws)
    IN {i \in DOMAIN found : found[i] = throw_name}

\* The kano scraper is in its scraping stage or has just left it, and no
\* other script has run at the same time as a scraper.
InKanoScraping ==
    /\ script = "kano"
    /\ pc \in {"scrape", "comments", "fix"}
    /\ others = 0
    /\ other_todo = <<>>

\* C9 as stated: in one run of the scraping stage, the only script at work
\* on the table, each (item, matched catalog entry) pair gives exactly one
\* event, however often the listings of the run return the item.
C9_OnePerPair ==
    (InKanoScraping /\ ~raised) =>
        \A p \in ItemIds : \A n \in InCatalog(judo_throws) :
            seen[p] > 0 =>
                Cardinality(RunRows(p, n)) + Cardinality(Pending(p, n))
                    = Cardinality(MatchedEntries(p, n))

\* C9 as the code has it, for a run that is the only script at work on the
\* table: each time a listing of the run returns an item,
\* every catalog entry that matches it gives one event, so an item returned
\* k times gives k events for the same entry (fewer only when an error cut a
\* pass short); all events of one pair in the run are equal in timestamp,
\* type, post_id, url and throw_name.
C9_OnePerOccurrence ==
    InKanoScraping =>
        \A p \in ItemIds : \A n \in InCatalog(judo_throws) :
            /\ Cardinality(RunRows(p, n)) + Cardinality(Pending(p, n))
                  <= seen[p] * Cardinality(MatchedEntries(p, n))
            /\ ~raised =>
                  Cardinality(RunRows(p, n)) + Cardinality(Pending(p, n))
                      = seen[p] * Cardinality(MatchedEntries(p, n))
            /\ \A r, q \in RunRows(p, n) : [q EXCEPT !.id = r.id] = r

\* The scraping stage has ended without an error; a submission that two
\* listings returned has two events for an entry the catalog holds once.
C9_Witness ==
    /\ InKanoScraping
    /\ pc = "fix"
    /\ ~raised
    /\ \E p \in ItemIds : \E n \in InCatalog(judo_throws) :
          /\ seen[p] >= 2
          /\ Cardinality(MatchedEntries(p, n)) = 1
          /\ Cardinality(RunRows(p, n)) = seen[p]

\* C10: the result of match for one item holds no name twice, so each time a
\* listing returns the item it gets at most one event per name.
C10_NameReportedOnce ==
    /\ \A i, j \in DOMAIN todo :
          (i # j /\ todo[i].post_id = todo[j].post_id) =>
              todo[i].throw_name # todo[j].throw_name
    /\ (/\ script \in {"kano", "checkdup"}
        /\ pc \in {"scrape", "submissions", "comments"}
        /\ others = 0) =>
          \A p \in ItemIds : \A n \in InCatalog(judo_throws) :
              Cardinality(RunRows(p, n)) <= seen[p]

\* C11: the matcher called with None or with the empty text returns the
\* empty result and raises nothing, for every catalog, in each of its three
\* variants.
C11_EmptyTextNoMatch ==
    (m_called # "" /\ m_text \in {None, <<>>}) =>
        /\ m_found = <<>>
        /\ m_error = ""

\* The rows stored since the run in which a pass last raised began.
RowsSinceFailure == {r \in mentions : r.id > failure.since}

\* The script that was interrupted is at work again: later in the run in
\* which the kano scraper caught the exception, or in the next run; no other
\* script has run at the same time as a scraper.
Resuming ==
    /\ others = 0
    /\ other_todo = <<>>
    /\ failure.script # ""
    /\ script = failure.script
    /\ runs = failure.run \/ runs = failure.run + 1

\* C12: when a pass has been interrupted after storing a prefix of its
\* events and the pipeline is run again over the same items, every row the
\* re-run adds for an (item, entry) pair that is stored already has the
\* timestamp of the stored row, so that after the exact duplicate removal
\* of the re-run the pair has one row, as after one uninterrupted pass.
C12_ResumeAddsExactDuplicates ==
    Resuming =>
        /\ \A r, q \in RowsSinceFailure : SameSoftKey(r, q) => SameExactKey(r, q)
        /\ pc = "remove_soft" =>
              \A r, q \in RowsSinceFailure : SameSoftKey(r, q) => r = q

\* The feed item with this id.
ItemOf(post_id) ==
    CHOOSE x \in Submissions \cup Comments : x.id = post_id

\* The row the last store_mention added.
LastStored == CHOOSE r \in mentions : r.id = sqlite_sequence

\* C13: the timestamp store_mention records is the created_utc of the feed
\* item, written as a date and time (in UTC or in the zone of the machine),
\* whatever the time of the scrape.
C13_TimestampIsCreatedAt ==
    last_op = "store_mention" =>
        \/ LastStored.timestamp = strftime(ItemOf(LastStored.post_id).created_utc)
        \/ LastStored.timestamp
              = strftime(fromtimestamp(ItemOf(LastStored.post_id).created_utc, tz))

\* C14: a store_mention that fails in a pass ends the run with the error:
\* no run goes on to the timestamp fix, the duplicate removals and the
\* summary after a store of one of its passes has failed.
C14_StorageErrorSurfaces ==
    (raised /\ failure.error = "storage" /\ failure.run = runs) =>
        pc \notin {"fix", "fix_update", "remove_exact", "delete_exact", "remove_soft", "delete_soft",
                   "summarize"}

\* A plot has been called and has returned its frame.
Plotted ==
    /\ a_called \in {"plot_mentions_over_time", "plot_mentions_over_time_checkdup"}
    /\ a_error = ""

\* The entries the plot called has selected: the a_top_n most mentioned.
SelectedNames ==
    LET top == top_throws(mentions, a_top_n)
    IN {top[i] : i \in DOMAIN top}

\* The events of the selected entries whose timestamp is a date.
SelectedEvents ==
    LET names == SelectedNames
    IN {r \in mentions : r.throw_name \in names /\ r.timestamp # Unparsable}

\* The calendar month of an event, and the events of one entry in one month.
MonthOfEvent(r) == <<r.timestamp[1], r.timestamp[2]>>

EventsIn(month, name) ==
    {r \in mentions : /\ r.throw_name = name
                      /\ r.timestamp # Unparsable
                      /\ MonthOfEvent(r) = month
                      /\ name \in SelectedNames}

\* Every calendar month from the earliest to the latest of the events.
CalendarMonths(events) ==
    LET number(m) == m[1] * 12 + m[2] - 1
        numbers == {number(MonthOfEvent(r)) : r \in events}
    IN IF events = {} THEN {}
       ELSE {<<k \div 12, (k % 12) + 1>> : k \in Min(numbers)..Max(numbers)}

\* The cell is the number 0.
IsZero(cell) == cell.rat[1] = 0 /\ cell.root[1] = 0

\* C15: the month axis of the frame holds every calendar month from the
\* earliest to the latest month of the selected events, and every series
\* has a value for each of these months, 0 where the entry has no event.
C15_ZeroFill ==
    Plotted =>
        /\ a_out.index = CalendarMonths(SelectedEvents)
        /\ \A month \in CalendarMonths(SelectedEvents) : \A name \in a_out.columns :
              /\ <<month, name>> \in DOMAIN a_out.cell
              /\ EventsIn(month, name) = {} => IsZero(a_out.cell[<<month, name>>])

\* C16: the frame has one series for each selected entry, all on the one
\* month axis, also for an entry whose events all have timestamps that are
\* no dates.
C16_OneSeriesPerSelected ==
    Plotted =>
        /\ a_out.columns = SelectedNames
        /\ DOMAIN a_out.cell = a_out.index \X a_out.columns

\* The number of rows with this name.
StoredCount(name) == Cardinality({r \in mentions : r.throw_name = name})

\* C17: an event whose timestamp is no date does not abort the plot of the
\* kano scraper and counts in no month of any series: the months of the
\* frame are months of events with a date, and a cell is the number of such
\* events of its month and entry (with normalize, it is 0 exactly when there
\* is none).  The event stays in the table, and summarize_mentions, when no
\* other process writes to the table between its two SELECTs, counts it in
\* the total and in the tally.
C17_UnparsableExcluded ==
    /\ [](a_called = "plot_mentions_over_time" =>
            /\ a_error = ""
            /\ a_out.index = {MonthOfEvent(r) : r \in SelectedEvents}
            /\ \A p \in DOMAIN a_out.cell :
                  /\ IsZero(a_out.cell[p]) <=> EventsIn(p[1], p[2]) = {}
                  /\ ~a_normalize =>
                        a_out.cell[p] = Ratio(Cardinality(EventsIn(p[1], p[2])), 1))
    /\ []((a_called = "summarize_mentions" /\ others = 0) =>
            /\ a_out.total_mentions = Cardinality(mentions)
            /\ \A name \in {r.throw_name : r \in mentions} :
                  \E i \in DOMAIN a_out.tally : a_out.tally[i] = <<name, StoredCount(name)>>)
    /\ [][others' = others => mentions' = mentions]_vars

\* The kano plot has drawn a series for an entry that has events with a date
\* and an event without.
C17_Witness ==
    /\ a_called = "plot_mentions_over_time"
    /\ a_error = ""
    /\ \E r, q \in mentions :
          /\ r.timestamp = Unparsable
          /\ q.timestamp # Unparsable
          /\ r.throw_name = q.throw_name
          /\ r.throw_name \in a_out.columns

\* a <= b, for two numbers rat + sqrt(root) of which one has no root or
\* both have the same.
ValLeq(a, b) ==
    LET dn == b.rat[1] * a.rat[2] - a.rat[1] * b.rat[2]
        dd == a.rat[2] * b.rat[2]
    IN IF a.root[1] * b.root[2] = b.root[1] * a.root[2]
       THEN dn >= 0
       ELSE IF a.root[1] = 0
       THEN dn >= 0 \/ dn * dn * b.root[2] <= b.root[1] * dd * dd
       ELSE IF b.root[1] = 0
       THEN dn >= 0 /\ a.root[1] * dd * dd <= dn * dn * a.root[2]
       ELSE FALSE

ValEq(a, b) == ValLeq(a, b) /\ ValLeq(b, a)

\* The monthly counts of an entry before capping.
RawSeries(name) == [m \in a_out.index |-> Cardinality(EventsIn(m, name))]

\* mean + CapMultiplier * std of the series, for the sample (ddof = 1) and
\* for the population (ddof = 0) standard deviation.  The sample standard
\* deviation of a single month does not exist.
StdExists(series, ddof) == Cardinality(DOMAIN series) > ddof

Ceiling(series, ddof) ==
    LET n == Cardinality(DOMAIN series)
    IN [rat  |-> <<Sum(series), n>>,
        root |-> <<CapMultiplier * CapMultiplier
                      * (n * Sum([m \in DOMAIN series |-> series[m] * series[m]])
                           - Sum(series) * Sum(series)),
                   n * (n - ddof)>>]

\* C18: in the plot of the older scraper, for every selected entry and
\* every month, the capped value is at most max(raw, mean + CapMultiplier *
\* std) of the entry's series and is the raw value whenever that is at most
\* mean + CapMultiplier * std; with std the sample or the population
\* standard deviation alike.
C18_CappingBound ==
    (a_called = "plot_mentions_over_time_checkdup" /\ a_error = "") =>
        \A p \in DOMAIN a_out.cell : \A ddof \in {0, 1} :
            LET series == RawSeries(p[2])
                raw    == Ratio(series[p[1]], 1)
                capped == a_out.cell[p]
            IN IF StdExists(series, ddof)
               THEN /\ \/ ValLeq(capped, raw)
                       \/ ValLeq(capped, Ceiling(series, ddof))
                    /\ ValLeq(raw, Ceiling(series, ddof)) => ValEq(capped, raw)
               ELSE ValEq(capped, raw)

\* The older plot has cut one count to the cap of its series and has left
\* another count of the frame, not 0, as it was.
C18_Witness ==
    /\ a_called = "plot_mentions_over_time_checkdup"
    /\ a_error = ""
    /\ \E p, q \in DOMAIN a_out.cell :
          /\ ~ValEq(a_out.cell[p], Ratio(RawSeries(p[2])[p[1]], 1))
          /\ RawSeries(q[2])[q[1]] > 0
          /\ a_out.cell[q] = Ratio(RawSeries(q[2])[q[1]], 1)

\* The sum of the cells of one month, as a fraction <<num, den>>; the cells
\* of the kano plot have no root.
RECURSIVE RowSum(_, _)
RowSum(month, names) ==
    IF names = {} THEN <<0, 1>>
    ELSE LET n    == CHOOSE n \in names : TRUE
             rest == RowSum(month, names \ {n})
             c    == a_out.cell[<<month, n>>].rat
         IN <<c[1] * rest[2] + rest[1] * c[2], c[2] * rest[2]>>

\* C19: with normalize, in every month in which a selected entry has a
\* mention the values of the selected entries sum to 100, and each value is
\* 100 * the entry's mentions of the month / the mentions of the month of
\* all selected entries.
C19_NormalizedSumsTo100 ==
    (a_called = "plot_mentions_over_time" /\ a_normalize) =>
        \A month \in {MonthOfEvent(r) : r \in SelectedEvents} :
            /\ month \in a_out.index
            /\ RowSum(month, a_out.columns)[1] = 100 * RowSum(month, a_out.columns)[2]
            /\ \A name \in a_out.columns :
                  LET c == a_out.cell[<<month, name>>]
                      total == Cardinality({r \in SelectedEvents : MonthOfEvent(r) = month})
                  IN /\ c.root[1] = 0
                     /\ c.rat[1] * total = 100 * Cardinality(EventsIn(month, name)) * c.rat[2]

\* The normalized plot has a month that two selected entries share two to one.
C19_Witness ==
    /\ a_called = "plot_mentions_over_time"
    /\ a_normalize
    /\ \E month \in a_out.index : \E n1, n2 \in a_out.columns :
          /\ Cardinality(EventsIn(month, n1)) = 2
          /\ Cardinality(EventsIn(month, n2)) = 1

\* The id of the first row stored with this name.
FirstStored(name) == Min({r.id : r \in {q \in mentions : q.throw_name = name}})

\* C20: the tally of a summary that no write of another process has come
\* into holds every name that has a row exactly once, with the number of its
\* rows, in the order of falling counts, and two names of equal count in the
\* order in which their first rows were stored.
C20_TallyOrder ==
    (a_called = "summarize_mentions" /\ others = 0) =>
        LET tally == a_out.tally
        IN /\ {tally[i][1] : i \in DOMAIN tally} = {r.throw_name : r \in mentions}
           /\ \A i, j \in DOMAIN tally : tally[i][1] = tally[j][1] => i = j
           /\ \A i \in DOMAIN tally : tally[i][2] = StoredCount(tally[i][1])
           /\ \A i, j \in DOMAIN tally :
                 i < j =>
                     \/ tally[i][2] > tally[j][2]
                     \/ /\ tally[i][2] = tally[j][2]
                        /\ FirstStored(tally[i][1]) < FirstStored(tally[j][1])

\* Every stored timestamp is a date and time, as store_mention and
\* fix_future_timestamps write it.
AllDates == \A r \in mentions : r.timestamp # Unparsable

\* The moment a is before the moment b: an earlier day, or the same day and
\* an earlier time of the day.
Before(a, b) ==
    LET day(t)  == (t[1] * 12 + t[2]) * 31 + t[3]
        secs(t) == (t[4] * 60 + t[5]) * 60 + t[6]
    IN \/ day(a) < day(b)
       \/ day(a) = day(b) /\ secs(a) < secs(b)

\* C21: the summary, when no write of another process has come into it,
\* reports the pair (None, None) for an empty table; otherwise its earliest
\* and its latest are stored timestamps, and on a table whose timestamps are
\* all dates no stored moment is before the earliest or after the latest.
C21_Bounds ==
    (a_called = "summarize_mentions" /\ others = 0) =>
        IF mentions = {}
        THEN a_out.earliest = None /\ a_out.latest = None
        ELSE /\ a_out.earliest \in {r.timestamp : r \in mentions}
             /\ a_out.latest \in {r.timestamp : r \in mentions}
             /\ AllDates =>
                   \A r \in mentions :
                       /\ ~Before(r.timestamp, a_out.earliest)
                       /\ ~Before(a_out.latest, r.timestamp)

\* The summary has run, alone, on a table of dates whose rows are not stored
\* in the order of their moments: the first row is the latest.
C21_Witness ==
    /\ a_called = "summarize_mentions"
    /\ others = 0
    /\ mentions # {}
    /\ AllDates
    /\ Before(a_out.earliest, a_out.latest)
    /\ \E r \in mentions : r.id = 1 /\ r.timestamp = a_out.latest

\* C22: every row a step adds has an id greater than every id given before
\* (sqlite_sequence, which never falls and bounds the ids of the table), so
\* greater than the id of every row stored before it, whether that row is
\* still in the table or a duplicate removal has taken it out.
C22_IdsGrow ==
    /\ \A r \in mentions : r.id <= sqlite_sequence
    /\ [][/\ sqlite_sequence' >= sqlite_sequence
          /\ \A r \in mentions' :
                /\ r.id <= sqlite_sequence'
                /\ (\A q \in mentions : q.id # r.id) => r.id > sqlite_sequence
          /\ (StoreMention \/ OtherStoreMention) =>
                \E r \in mentions' : \A q \in mentions : q.id # r.id]_vars

\* A row has just been stored after a duplicate removal took out the row
\* that had the largest id.
C22_Witness ==
    /\ last_op = "store_mention"
    /\ mentions # {}
    /\ \E r \in mentions : r.id = sqlite_sequence /\ sqlite_sequence >= 3
    /\ \A r \in mentions : r.id # sqlite_sequence - 1
    /\ \E r \in mentions : r.id < sqlite_sequence - 1

\* C23: the throw_name of every row the current run has stored, and of every
\* store_mention call it has still to make, is a name of judo_throws, the
\* catalog the run loaded before its passes; a row keeps its throw_name for
\* as long as it is in the table (C8).
C23_NameFromCatalog ==
    /\ \A r \in mentions : r.id > run_start => r.throw_name \in InCatalog(judo_throws)
    /\ \A i \in DOMAIN todo : todo[i].throw_name \in InCatalog(judo_throws)

\* A pass of a second run has stored a row, in a table that holds a row of
\* the run before, from a text that has the name in other letter case.
C23_Witness ==
    /\ in_pass
    /\ last_op = "store_mention"
    /\ runs = 2
    /\ \E r, q \in mentions :
          /\ r.id = sqlite_sequence
          /\ r.id > run_start
          /\ r.throw_name \in InCatalog(judo_throws)
          /\ lower(r.throw_name) # r.throw_name
          /\ q.id <= run_start

\* C24: when the catalog holds a name and a longer name that contains it as
\* a whole word, the matcher reports both for a text that holds the longer
\* name as a whole word, so that a pass stores one row for each.
C24_NestedNamesBothReported ==
    (m_called = "find_throws_in_text" /\ m_text # None) =>
        \A short, long \in InCatalog(m_catalog) :
            (/\ short # long
             /\ ContainsWholeWord(short, long)
             /\ ContainsWholeWord(long, m_text)) =>
                /\ short \in InCatalog(m_found)
                /\ long \in InCatalog(m_found)

January2024 == <<2024, 1>>

February2024 == <<2024, 2>>

\* C25: on the table of the six mentions, some of them stored twice, after
\* remove_exact_duplicates either plot with top_n = 2 (the kano plot
\* without normalize) raises nothing and draws the months January and
\* February 2024 with "Uchi Mata" at 3 and 2 and "O Soto Gari" at 1 and 0;
\* the cap of the older plot changes none of the four.
C25_EndToEnd ==
    (/\ last_op = "remove_exact_duplicates"
     /\ a_called \in {"plot_mentions_over_time", "plot_mentions_over_time_checkdup"}
     /\ a_top_n = 2
     /\ ~a_normalize) =>
        /\ a_error = ""
        /\ a_out.index = {January2024, February2024}
        /\ a_out.columns = {UchiMata, OSotoGari}
        /\ a_out.cell = [p \in a_out.index \X a_out.columns |->
                            IF p = <<January2024, UchiMata>> THEN Ratio(3, 1)
                            ELSE IF p = <<February2024, UchiMata>> THEN Ratio(2, 1)
                            ELSE IF p = <<January2024, OSotoGari>> THEN Ratio(1, 1)
                            ELSE Ratio(0, 1)]

\* The older plot has drawn the table from which remove_exact_duplicates
\* had taken the second copy of a January and of a February mention.
C25_Witness ==
    /\ last_op = "remove_exact_duplicates"
    /\ removed = 2
    /\ Cardinality(mentions) = 6
    /\ \E r \in mentions : r.id = 8
    /\ a_called = "plot_mentions_over_time_checkdup"
    /\ a_top_n = 2
    /\ a_error = ""

\* C26: fix_future_timestamps takes as now the local time of the moment it
\* reads the clock, and its UPDATE leaves no row with a timestamp later than
\* now, gives every row whose timestamp was later than now the timestamp
\* now, leaves every other row as it was, adds and removes no row, and
\* returns the number of rows it has changed.
C26_FixFutureTimestamps ==
    [][/\ FixFutureTimestampsNow => now' = strftime(NowLocal)' /\ mentions' = mentions
       /\ FixFutureTimestamps =>
             /\ now' = now
             /\ \A q \in mentions' : ~TextLess(now, q.timestamp)
             /\ \A r \in mentions :
                   /\ TextLess(now, r.timestamp) =>
                         [r EXCEPT !.timestamp = now] \in mentions'
                   /\ ~TextLess(now, r.timestamp) => r \in mentions'
             /\ {q.id : q \in mentions'} = {r.id : r \in mentions}
             /\ Cardinality(mentions') = Cardinality(mentions)
             /\ fixed_count' = Cardinality(mentions \ mentions')]_vars

\* The UPDATE has moved a row to now and has left an earlier row as it was.
C26_Witness ==
    /\ script = "kano"
    /\ last_op = "fix_future_timestamps"
    /\ fixed_count >= 1
    /\ \E r, q \in mentions :
          /\ r.timestamp = now
          /\ TextLess(q.timestamp, now)

\* The cell of the older plot is what capping at mean + CapMultiplier * std
\* makes of the raw count, for std the standard deviation with this ddof:
\* the ceiling when std > 0 and the raw count exceeds the ceiling, the raw
\* count otherwise.
CappedWith(p, ddof) ==
    LET series  == RawSeries(p[2])
        raw     == Ratio(series[p[1]], 1)
        ceiling == Ceiling(series, ddof)
    IN IF /\ StdExists(series, ddof)
          /\ ceiling.root[1] > 0
          /\ ~ValLeq(raw, ceiling)
       THEN ValEq(a_out.cell[p], ceiling)
       ELSE ValEq(a_out.cell[p], raw)

\* C27: in the plot of the older scraper every value is the raw count of
\* its month capped at mean + CapMultiplier * (population standard
\* deviation) of the entry's raw monthly counts: replaced by that ceiling
\* exactly when the deviation is above 0 and the raw count above the
\* ceiling; a series of equal counts is left as it is.
C27_PopulationStdCeiling ==
    (a_called = "plot_mentions_over_time_checkdup" /\ a_error = "") =>
        \A p \in DOMAIN a_out.cell : CappedWith(p, 0)

\* The distinct (timestamp, post_id, throw_name) triples of a table.
Triples(rows) == {<<r.timestamp, r.post_id, r.throw_name>> : r \in rows}

\* C28: a step of remove_exact_duplicates leaves the set of distinct
\* (timestamp, post_id, throw_name) triples of the table as it was, leaves
\* the earliest and the latest timestamp as they were, and leaves every row
\* that stays with its id and all its fields.
C28_DedupExactInvisible ==
    [][ExactStep =>
        /\ Triples(mentions') = Triples(mentions)
        /\ MinTimestamp(mentions') = MinTimestamp(mentions)
        /\ MaxTimestamp(mentions') = MaxTimestamp(mentions)
        /\ \A q \in mentions' : q \in mentions]_vars

\* The exact pass has removed rows from a table whose earliest and latest
\* timestamps differ.
C28_Witness ==
    /\ last_op = "remove_exact_duplicates"
    /\ removed >= 1
    /\ Cardinality(Triples(mentions)) >= 2
    /\ MinTimestamp(mentions) # MaxTimestamp(mentions)

\* C29: when main() is at summarize_mentions and the plots, and no other
\* script has run at the same time as a scraper, the last write to the table
\* was remove_soft_duplicates, which main() runs after
\* remove_exact_duplicates, and no two rows of the table have the same
\* post_id and throw_name.
C29_SummaryReadsDeduplicated ==
    (pc = "summarize" /\ others = 0) =>
        /\ last_op = "remove_soft_duplicates"
        /\ \A r, q \in mentions : SameSoftKey(r, q) => r = q

\* A second run is at its summary; its soft pass has removed rows, and the
\* table holds rows of the run before and of this run.
C29_Witness ==
    /\ pc = "summarize"
    /\ others = 0
    /\ other_todo = <<>>
    /\ runs = 2
    /\ removed >= 1
    /\ \E r, q \in mentions : r.id <= run_start /\ q.id > run_start

\* What a pass of the kano scraper has counted beyond the rows it has added
\* or has still to add: matches, less the store_mention calls to come, less
\* the rows stored so far.  It is -sqlite_sequence when the pass is entered,
\* and the pass returns with no call to come, so the returned matches is the
\* number of rows the pass added exactly when no step of the pass changes it.
Uncounted == matches - Len(todo) - sqlite_sequence

\* C30: the matches that match_submissions and match_comments return is the
\* number of rows the call has added to the table, also for a call that an
\* exception of the listing or of store_mention has ended early: no step
\* of a pass changes Uncounted.
C30_MatchesAreRowsAdded ==
    [][(script = "kano" /\ in_pass /\ in_pass' /\ ~OtherStoreMention) =>
          Uncounted' = Uncounted]_vars

====
